---- MODULE Spec2Model ----
(***************************************************************************)
(* Per-tenant Alertmanager instance (pkg/services/ngalert/notifier):       *)
(* SaveAndApplyDefaultConfig, SaveAndApplyConfig, ApplyConfig, applyConfig, *)
(* applyAndMarkConfig, Ready and StopAndWait, run by concurrent callers    *)
(* against one instance, its store, its working directory and its embedded *)
(* pipeline (Base).                                                        *)
(***************************************************************************)
EXTENDS Integers, FiniteSets, Sequences, TLC

\* ------------------------------------------------------------------ bounds
MaxRows == 2           \* saves started or committed, over a behaviour
MaxBatch == 3          \* alerts in one PutAlerts call
MaxCleanUps == 2       \* CleanUp calls, over a behaviour
MaxNow == 6            \* days the clock runs
MaxEntryDay == 1       \* the last day on which entries are added

\* two concurrent callers of one instance; NoProc: the mutex is not held
Procs == {"c1", "c2"}
NoProc == "none"

\* ------------------------------------------------------------------ errors
NoErr == "nil"
ErrLoad == "load"              \* Load rejected the document
ErrDB == "db"                  \* the store failed
ErrBuild == "build"            \* Base.ApplyConfig failed (receiver integrations)
ErrTemplateIO == "template-io" \* PersistTemplates failed
NotCalled == "not-called"      \* Base.ApplyConfig was not reached

\* ------------------------------------------------------- configuration data
NotificationLogFilename == "notifications"
SilencesFilename == "silences"
DefaultTemplateName == "__default__.tmpl"
DefaultTemplateString == "default"

\* apimodels.PostableApiAlertingConfig: root route receiver, receivers, template paths
AmA == [route |-> "r1", receivers |-> {"r1"}, templates |-> {}]
AmB == [route |-> "r2", receivers |-> {"r1", "r2"}, templates |-> {}]
AmUndeclared == [route |-> "r2", receivers |-> {"r1"}, templates |-> {}]

\* cfg.TemplateFiles: a Go map, nil or a set of (name, content) entries
NilTemplates == [isnil |-> TRUE, files |-> {}]
EmptyTemplates == [isnil |-> FALSE, files |-> {}]
\* a user map that also has an entry under the name of the default template
UserTemplates ==
    [isnil |-> FALSE, files |-> {<<"t1.tmpl", "a">>, <<DefaultTemplateName, "mine">>}]

\* apimodels.PostableUserConfig
UserConfig(am, tf) == [am |-> am, tf |-> tf]

\* Serialized documents.  enc: which Go value was serialized; ws: 0 for the
\* output of json.Marshal, 1 for a differently formatted text of the same document.
NilRaw == [enc |-> "nil"]
RawUser(c, ws) == [enc |-> "user", ws |-> ws, am |-> c.am, tf |-> c.tf]

\* json.Marshal(&cfg) of a PostableUserConfig
Marshal(c) == RawUser(c, 0)

\* json.Marshal(cfg.AlertmanagerConfig)
MarshalAm(am) == [enc |-> "am", ws |-> 0, am |-> am, tf |-> NilTemplates]

\* md5.Sum: distinct byte strings of the model get distinct sums
Md5(raw) == <<raw>>
ZeroHash == <<>>

\* Load: parse and validate; every route receiver must be a declared receiver
Load(raw) ==
    [ok |-> raw.enc = "user" /\ raw.am.route \in raw.am.receivers,
     cfg |-> UserConfig(raw.am, raw.tf)]

\* inputs
UserCfgs == {UserConfig(AmA, EmptyTemplates), UserConfig(AmB, UserTemplates)}
ValidDefault == RawUser(UserConfig(AmA, NilTemplates), 1)
InvalidDoc == RawUser(UserConfig(AmUndeclared, NilTemplates), 1)
DefaultDocs == {ValidDefault, InvalidDoc}
DbDocs == {ValidDefault, InvalidDoc, Marshal(UserConfig(AmA, EmptyTemplates))}

\* am.orgID: the tenant of the instance
orgID == 1

\* the orgID of a second tenant, and the two together; NoOrg: no tenant
otherOrgID == 2
Orgs == {orgID, otherOrgID}
NoOrg == 0

\* cfg.DataPath, and the constant workingDir
DataPath == "data"
workingDir == "alerting"

\* strconv.Itoa(int(orgID))
Itoa(n) == ToString(n)

\* variant with a fault: the tenant is left out of the path
WorkingPathOfAll(org) == <<DataPath, workingDir>>

\* NewAlertmanager: filepath.Join(cfg.DataPath, workingDir, strconv.Itoa(int(orgID))),
\* a path as the sequence of its elements
WorkingPath(org) == <<DataPath, workingDir, Itoa(org)>>

\* NewAlertmanager: each instance gets the Base that its own call of
\* NewGrafanaAlertmanager made, with its own mutex; a Base is named by its tenant
BaseOf(org) == org

\* ngmodels.AlertConfiguration as read from the store
DbRecord(raw) == [raw |-> raw, hash |-> Md5(raw)]

\* -------------------------------------------------------------------- state
VARIABLES
    defaultConfiguration, \* Settings.UnifiedAlerting.DefaultConfiguration
    lock,                 \* holder of the mutex behind Base.WithLock, or NoProc
    base,                 \* Base: ready flag, config hash, active configuration
    stopped,              \* Base.StopAndWait has returned
    disk,                 \* template files in the working directory
    db,                   \* committed configuration: latest row, number of rows
    marks,                \* commands MarkConfigurationAsApplied has stored
    pc, op, cfg, raw, dbhash, baseErr, ares, saveErr, outerErr, afterStop,
    markErr,              \* what MarkConfigurationAsApplied returned to the call, or NotCalled
    gauges,               \* ConfigMetrics: the values of the five gauges
    cmd,                  \* the SaveAlertmanagerConfigurationCmd of a save path
    pre,                  \* history: state when the lock was taken
    hist,                 \* history: the applyConfig call before the current one
    everBuilt,            \* history: some Base.ApplyConfig has returned nil
    fn,                   \* the last call of a function on its own, and its result
    alerts,               \* Base: the alerts the pipeline has accepted
    put,                  \* the last PutAlerts call: its batch and what came of it
    mpc,                  \* Base: where the maintenance goroutine of each state is
    mres,                 \* what the last maintenanceFunc call of each state returned
    ctxDone,              \* the context given to NewAlertmanager is cancelled
    stopc,                \* Base.StopAndWait has signalled the goroutines to stop
    wd,                   \* the working directory: whether it exists, its snapshot files
    cpc,                  \* where the caller of CleanUp is
    cleaned,              \* history: the working directory at each CleanUp call
    now,                  \* the clock, in days
    mem,                  \* Base: the entries of each in-memory state, by their time
    content,              \* the bytes of each snapshot file of the working directory
    kv,                   \* the key-value fallback store of the tenant, by key
    persisted,            \* history: the bytes each maintenanceFunc last persisted
    loaded,               \* history: per state, the current instance was constructed
                          \* on an empty working directory and has not persisted it since
    up,                   \* NewAlertmanager returned an instance
    tpc,                  \* per tenant: where the caller of its instance is
    tcfg,                 \* per tenant: the configuration of the call in progress
    tlock,                \* per Base: the tenant whose caller holds its mutex, or 0
    tactive,              \* per Base: the hash of its active configuration
    tfs,                  \* the file system: per directory, what it holds
    actor                 \* history: the tenant whose instance took the last step, or 0

locals == <<pc, op, cfg, raw, dbhash, baseErr, ares, saveErr, outerErr, afterStop, cmd, markErr>>
shared == <<defaultConfiguration, lock, base, stopped, disk, db, marks>>
\* what the configuration paths (save, apply, mark) never touch
maint == <<mpc, mres, ctxDone, stopc, wd, cpc, cleaned>>
\* snapshots: their content, the fallback store, and the clock
snap == <<now, mem, content, kv, persisted, loaded, up>>
\* two instances, of two tenants, side by side
tenants == <<tpc, tcfg, tlock, tactive, tfs, actor>>
others == <<fn, alerts, put, maint, snap, tenants>>
vars == <<shared, locals, pre, hist, everBuilt, gauges, others>>

NoCfg == [am |-> [route |-> "", receivers |-> {}, templates |-> {}], tf |-> NilTemplates]
NoRes == [changed |-> FALSE, err |-> NoErr]
NoCmd == [AlertmanagerConfiguration |-> NilRaw, Default |-> FALSE, OrgID |-> 0]
NoPre == [set |-> FALSE]
\* the gauges of ConfigMetrics before any Set
NoGauges ==
    [Matchers |-> 0, MatchRE |-> 0, Match |-> 0, ObjectMatchers |-> 0,
     ConfigHash |-> <<0, 0, 0, 0>>]
NoHist == [raw |-> NilRaw, files |-> {}, ok |-> FALSE]
NoFn == [f |-> "none"]
NoPut == [called |-> FALSE]

\* the states Base maintains: silences and the notification log
SnapshotNames == {SilencesFilename, NotificationLogFilename}

\* a working directory that is not on disk
RemovedDir == [exists |-> FALSE, snaps |-> {}]
\* no file, no value under the key, nothing persisted yet
NoValue == [has |-> FALSE, bytes |-> <<>>]
Value(b) == [has |-> TRUE, bytes |-> b]

Snapshot == [set |-> TRUE, base |-> base, disk |-> disk, db |-> db, marks |-> marks,
             gauges |-> gauges, wd |-> wd]

Init ==
    /\ defaultConfiguration \in DefaultDocs
    /\ lock = NoProc
    /\ base = [ready |-> FALSE, configHash |-> ZeroHash, am |-> NoCfg.am]
    /\ stopped = FALSE
    /\ disk = {}
    /\ db = [latest |-> NilRaw, default |-> FALSE, rows |-> 0]
    /\ marks = {}
    /\ pc = [p \in Procs |-> "idle"]
    /\ op = [p \in Procs |-> "none"]
    /\ cfg = [p \in Procs |-> NoCfg]
    /\ raw = [p \in Procs |-> NilRaw]
    /\ dbhash = [p \in Procs |-> ZeroHash]
    /\ baseErr = [p \in Procs |-> NotCalled]
    /\ ares = [p \in Procs |-> NoRes]
    /\ saveErr = [p \in Procs |-> NoErr]
    /\ outerErr = [p \in Procs |-> NoErr]
    /\ afterStop = [p \in Procs |-> FALSE]
    /\ markErr = [p \in Procs |-> NotCalled]
    /\ cmd = [p \in Procs |-> NoCmd]
    /\ pre = NoPre
    /\ hist = NoHist
    /\ everBuilt = FALSE
    /\ gauges = NoGauges
    /\ fn = NoFn
    /\ alerts = {}
    /\ put = NoPut
    /\ mpc = [k \in SnapshotNames |-> "wait"]
    /\ mres = [k \in SnapshotNames |-> NotCalled]
    /\ ctxDone = FALSE
    /\ stopc = FALSE
    /\ wd = RemovedDir
    /\ cpc = "idle"
    /\ cleaned = <<>>
    /\ now = 0
    /\ mem = [k \in SnapshotNames |-> {}]
    /\ content = [k \in SnapshotNames |-> NoValue]
    /\ kv = [k \in SnapshotNames |-> NoValue]
    /\ persisted = [k \in SnapshotNames |-> NoValue]
    /\ loaded = [k \in SnapshotNames |-> FALSE]
    /\ up = TRUE
    /\ tpc = [o \in Orgs |-> "idle"]
    /\ tcfg = [o \in Orgs |-> NoCfg]
    /\ tlock = [b \in {BaseOf(o) : o \in Orgs} |-> NoOrg]
    /\ tactive = [b \in {BaseOf(o) : o \in Orgs} |->
                    [ready |-> FALSE, configHash |-> ZeroHash, am |-> NoCfg.am]]
    /\ tfs = [d \in {WorkingPath(o) : o \in Orgs} |-> [exists |-> FALSE, snaps |-> {}, disk |-> {}]]
    /\ actor = NoOrg

\* ------------------------------------------------------------ Ready / Stop
\* variants of Ready with a fault: ready from the start; not ready while an
\* apply holds the lock
ReadyFromTheStart == TRUE
ReadyOnlyWhenUnlocked == base.ready /\ lock = NoProc

\* alertmanager.Ready
Ready == base.ready

\* alertmanager.StopAndWait: delegates to Base.StopAndWait; it does not take the
\* configuration lock and sets no flag the apply paths read.  The call as one
\* step, for the configuration paths; StopSignal and StopReturn below are the same
\* call next to the maintenance goroutines.
StopAndWait ==
    /\ ~stopped
    /\ stopped' = TRUE
    /\ UNCHANGED <<others, gauges, defaultConfiguration, lock, base, disk, db, marks, locals, pre, hist, everBuilt>>

\* -------------------------------------------------------------- the store
\* What the store does when the insert of SaveAlertmanagerConfigurationWithCallback
\* is attempted: it fails before the callback runs, or the callback runs.
InsertOutcomes == {NoErr, ErrDB}

\* The end of the transaction once the callback returned nil: commit, or fail to.
CommitOutcomes == {NoErr, ErrDB}

\* MarkConfigurationAsApplied: succeeds or fails.
MarkOutcomes == {NoErr, ErrDB}

\* The row a committed save leaves as the latest configuration.
Committed(c) ==
    [latest |-> c.AlertmanagerConfiguration, default |-> c.Default, rows |-> db.rows + 1]

\* ------------------------------------------------------- template persistence
\* variant with a fault: the default template is set only when the map has no
\* entry of that name
InjectDefaultIfAbsent(tf) ==
    IF \E e \in tf.files : e[1] = DefaultTemplateName
    THEN tf.files
    ELSE tf.files \cup {<<DefaultTemplateName, DefaultTemplateString>>}

\* applyConfig: cfg.TemplateFiles["__default__.tmpl"] = DefaultTemplateString
InjectDefault(tf) ==
    {e \in tf.files : e[1] # DefaultTemplateName}
        \cup {<<DefaultTemplateName, DefaultTemplateString>>}

WriteOver(d, S) == {e \in d : ~\E f \in S : f[1] = e[1]} \cup S

\* PersistTemplates(cfg, workingDirectory): writes every template file that
\* differs, removes the .tmpl files no longer named, and reports whether anything
\* was written or removed; an I/O error stops it after some of the files.
PersistTemplates(files, d) ==
    {[err |-> NoErr, disk |-> files, changed |-> d # files]}
        \cup {[err |-> ErrTemplateIO, disk |-> WriteOver(d, S), changed |-> FALSE] :
                S \in (SUBSET files) \ {files}}

\* ---------------------------------------------------------- small decisions
\* variant with a fault: the hash comparison always reports a change
ConfigChangedAlways(activeHash, r) == TRUE

\* variant with a fault: the configurations are compared as parsed documents
\* instead of by the hash of their bytes
ConfigChangedStructural(activeHash, r) == activeHash = ZeroHash \/ activeHash[1].am # r.am

\* applyConfig: am.Base.ConfigHash() != md5.Sum(rawConfig)
ConfigChanged(activeHash, r) == activeHash # Md5(r)

\* variant with a fault: the error of am.Base.ApplyConfig is dropped
ApplyConfigResultDropsErr(e) == [changed |-> TRUE, err |-> NoErr]

\* applyConfig: what it returns after am.Base.ApplyConfig returned e
ApplyConfigResult(e) ==
    IF e # NoErr THEN [changed |-> FALSE, err |-> e] ELSE [changed |-> TRUE, err |-> NoErr]

\* variant with a fault: the callback swallows the error of applyConfig
CallbackSwallowsErr(applyErr) == NoErr

\* the callback handed to SaveAlertmanagerConfigurationWithCallback
Callback(applyErr) == applyErr

\* the save paths: cmd := &ngmodels.SaveAlertmanagerConfigurationCmd{...}, with the
\* marshalled bytes (rawConfig) or the default configuration of the settings (d)
SaveCmd(o, rawConfig, d) ==
    [AlertmanagerConfiguration |-> IF o = "SaveDefault" THEN d ELSE rawConfig,
     Default |-> o = "SaveDefault",
     OrgID |-> orgID]

\* variant with a fault: the callback hands applyConfig no raw bytes
CallbackRawNil(o, rawConfig, d) == NilRaw

\* the rawConfig argument of am.applyConfig in the callback of the save paths
CallbackRaw(o, rawConfig, d) == IF o = "SaveDefault" THEN d ELSE rawConfig

\* variant with a fault: the applied mark carries no tenant
MarkCmdNoOrg(org, hash) == [OrgID |-> 0, ConfigurationHash |-> hash]

\* applyAndMarkConfig: ngmodels.MarkConfigurationAsAppliedCmd{OrgID, ConfigurationHash}
MarkCmd(org, hash) == [OrgID |-> org, ConfigurationHash |-> hash]

\* SaveAndApplyConfig: outerErr = err
SaveOuterErr(e) == e

\* SaveAndApplyDefaultConfig: if err != nil { outerErr = nil }
DefaultOuterErr(e) == NoErr

OuterErrOf(o, e) == IF o = "SaveDefault" THEN DefaultOuterErr(e) ELSE SaveOuterErr(e)

\* variant with a fault: the error of Load is not checked
ApplyConfigLoadUnchecked(l) == FALSE

\* ApplyConfig: if err != nil after Load
ApplyConfigLoadFailed(l) == ~l.ok

\* SaveAndApplyDefaultConfig: if err != nil after Load
DefaultLoadFailed(l) == ~l.ok

\* variant with a fault: the caller runs its function without the mutex
WithoutLock(p) == TRUE

\* am.Base.WithLock: the caller enters only when no one holds the mutex
WithLockMayEnter(p) == lock = NoProc

\* number of saves that have started and not yet returned
SavesInFlight == Cardinality({q \in Procs : op[q] \in {"Save", "SaveDefault"}})

\* ------------------------------------------------- configuration metrics
\* AggregateMatchersUsage
ZeroUsage == [Matchers |-> 0, MatchRE |-> 0, Match |-> 0, ObjectMatchers |-> 0]

\* apimodels.Route: Matchers and ObjectMatchers are slices, MatchRE and Match are
\* maps (their key sets here), Routes the child routes in order
Route(ms, re, ma, om, rs) ==
    [Matchers |-> ms, MatchRE |-> re, Match |-> ma, ObjectMatchers |-> om, Routes |-> rs]

\* config.InhibitRule
InhibitRule(sms, tms, sre, tre, sma, tma) ==
    [SourceMatchers |-> sms, TargetMatchers |-> tms,
     SourceMatchRE |-> sre, TargetMatchRE |-> tre,
     SourceMatch |-> sma, TargetMatch |-> tma]

\* variant with a fault: the child routes are not visited
aggregateRouteMatchersRootOnly(r, amu) ==
    [Matchers |-> amu.Matchers + Len(r.Matchers),
     MatchRE |-> amu.MatchRE + Cardinality(r.MatchRE),
     Match |-> amu.Match + Cardinality(r.Match),
     ObjectMatchers |-> amu.ObjectMatchers + Len(r.ObjectMatchers)]

\* aggregateRouteMatchers: add the four lengths of r to amu, then visit the child
\* routes in order with the same amu
RECURSIVE aggregateRouteMatchers(_, _)
RECURSIVE aggregateRoutes(_, _)
aggregateRouteMatchers(r, amu) ==
    aggregateRoutes(r.Routes,
        [Matchers |-> amu.Matchers + Len(r.Matchers),
         MatchRE |-> amu.MatchRE + Cardinality(r.MatchRE),
         Match |-> amu.Match + Cardinality(r.Match),
         ObjectMatchers |-> amu.ObjectMatchers + Len(r.ObjectMatchers)])

\* for _, next := range r.Routes { am.aggregateRouteMatchers(next, amu) }
aggregateRoutes(rs, amu) ==
    IF rs = <<>> THEN amu
    ELSE aggregateRoutes(Tail(rs), aggregateRouteMatchers(Head(rs), amu))

\* aggregateInhibitMatchers: for each rule, source and target matchers go to
\* Matchers, source and target match_re to MatchRE, source and target match to Match
RECURSIVE aggregateInhibitMatchers(_, _)
aggregateInhibitMatchers(rules, amu) ==
    IF rules = <<>> THEN amu
    ELSE LET r == Head(rules) IN
         aggregateInhibitMatchers(Tail(rules),
            [amu EXCEPT !.Matchers = @ + Len(r.SourceMatchers) + Len(r.TargetMatchers),
                        !.MatchRE = @ + Cardinality(r.SourceMatchRE) + Cardinality(r.TargetMatchRE),
                        !.Match = @ + Cardinality(r.SourceMatch) + Cardinality(r.TargetMatch)])

\* A uint64 is kept as its four 16-bit digits, least significant first: the
\* integers of TLC are 32 bits wide.
Digit(lowByte, highByte) == lowByte + 256 * highByte

\* binary.LittleEndian.Uint64(b) for the eight bytes b
LittleEndianUint64(b) ==
    <<Digit(b[1], b[2]), Digit(b[3], b[4]), Digit(b[5], b[6]), Digit(b[7], b[8])>>

\* float64(u): exact below 2^53, which is when the top digit is below 2^5;
\* above that the conversion rounds away the low bits of the lowest digit
Float64(u) == IF u[4] < 32 THEN u ELSE <<(u[1] \div 2048) * 2048, u[2], u[3], u[4]>>

\* variant with a fault: eight bytes of the sum are kept
SmallSumOfEight(data) == SubSeq(data, 1, 8)

\* hashAsMetricValue: smallSum := data[0:6]
SmallSum(data) == SubSeq(data, 1, 6)

\* copy(bytes, smallSum) into bytes := make([]byte, 8)
CopyInto8(smallSum) == [i \in 1..8 |-> IF i <= Len(smallSum) THEN smallSum[i] ELSE 0]

\* hashAsMetricValue(data [16]byte) float64
hashAsMetricValue(data) == Float64(LittleEndianUint64(CopyInto8(SmallSum(data))))

\* variant with a fault: the accumulator is kept between calls, so a call starts
\* from the counts the call before it left
amuOfLastCall ==
    [Matchers |-> gauges.Matchers + (IF fn.f = "updateConfigMetrics" THEN fn.gauges.Matchers ELSE 0),
     MatchRE |-> gauges.MatchRE + (IF fn.f = "updateConfigMetrics" THEN fn.gauges.MatchRE ELSE 0),
     Match |-> gauges.Match + (IF fn.f = "updateConfigMetrics" THEN fn.gauges.Match ELSE 0),
     ObjectMatchers |-> gauges.ObjectMatchers
                            + (IF fn.f = "updateConfigMetrics" THEN fn.gauges.ObjectMatchers ELSE 0)]

\* updateConfigMetrics: var amu AggregateMatchersUsage, a new accumulator with
\* four zero counts in every call
amu == ZeroUsage

\* updateConfigMetrics: the values the five gauges are set to, for the
\* configuration cfg and the hash Base.ConfigHash() returns
updateConfigMetrics(c, configHash) ==
    LET usage == aggregateInhibitMatchers(c.InhibitRules,
                    aggregateRouteMatchers(c.Route, amu))
    IN [Matchers |-> usage.Matchers, MatchRE |-> usage.MatchRE, Match |-> usage.Match,
        ObjectMatchers |-> usage.ObjectMatchers,
        ConfigHash |-> hashAsMetricValue(configHash)]

\* inputs: route nodes by the matchers they carry
PlainNode(rs) == Route(<<>>, {}, {}, <<>>, rs)
ObjectNode(rs) == Route(<<>>, {}, {}, <<"a=b", "c=d">>, rs)
MatchNode(rs) == Route(<<>>, {"re"}, {"eq"}, <<>>, rs)
MixedNode(rs) == Route(<<"m">>, {"re", "re2"}, {}, <<"a=b">>, rs)
NodesOver(S) ==
    UNION {{PlainNode(rs), ObjectNode(rs), MatchNode(rs), MixedNode(rs)} : rs \in S}

Leaves == NodesOver({<<>>})
Depth1 ==
    NodesOver({<<a>> : a \in {ObjectNode(<<>>), MatchNode(<<>>)}}
                \cup {<<MatchNode(<<>>), MixedNode(<<>>)>>})
Depth2 == NodesOver({<<a, MatchNode(<<>>)>> : a \in {ObjectNode(<<MixedNode(<<>>)>>), PlainNode(<<MatchNode(<<>>), MixedNode(<<>>)>>)}})
Routes == Leaves \cup Depth1 \cup Depth2

\* the example of the documentation: a root with two object matchers and one
\* child with one match and one match_re
ExampleRoute == ObjectNode(<<MatchNode(<<>>)>>)

NoRule == InhibitRule(<<>>, <<>>, {}, {}, {}, {})
RuleNew == InhibitRule(<<"s">>, <<"t", "u">>, {}, {}, {}, {})
RuleOld == InhibitRule(<<>>, <<>>, {"s"}, {}, {"s"}, {"t", "u"})
InhibitRuleLists ==
    {<<>>} \cup {<<a>> : a \in {NoRule, RuleNew, RuleOld}}
        \cup {<<a, b>> : a, b \in {RuleNew, RuleOld}}

MetricCfgs == {[Route |-> r, InhibitRules |-> i] : r \in Routes, i \in InhibitRuleLists}

\* inputs: md5 sums that differ in the bytes at VaryAt
ByteVals == {0, 1, 255}
VaryAt == {1, 6, 7}
Hashes == {[i \in 1..16 |-> IF i \in VaryAt THEN v[i] ELSE 0] : v \in [VaryAt -> ByteVals]}
HashesOfConfigs == {h \in Hashes : h[1] = 1 /\ h[6] = 255 /\ h[7] # 1}

\* The [16]byte of an md5 sum of the model: the zero array for the zero hash, and
\* for the sum of a document bytes that tell the documents of the model apart.
Sum16(h) ==
    IF h = ZeroHash THEN [i \in 1..16 |-> 0]
    ELSE LET r == h[1] IN
         [i \in 1..16 |->
            CASE i = 1 -> IF r.enc = "user" THEN 1 ELSE 2
              [] i = 2 -> r.ws
              [] i = 3 -> IF r.am.route = "r1" THEN 1 ELSE 2
              [] i = 4 -> Cardinality(r.am.receivers)
              [] i = 5 -> IF r.tf.isnil THEN 0 ELSE 1 + Cardinality(r.tf.files)
              [] OTHER -> 0]

\* cfg.AlertmanagerConfig.Route and .InhibitRules of the documents of the model,
\* by their root receiver
UsageConfig(am) ==
    IF am.route = "r1" THEN [Route |-> ExampleRoute, InhibitRules |-> <<>>]
    ELSE [Route |-> MixedNode(<<>>), InhibitRules |-> <<RuleNew>>]

\* ------------------------------------------------------------- call entry
Begin(p, o, c, r, h, e, next) ==
    /\ pc[p] = "idle"
    /\ pc' = [pc EXCEPT ![p] = next]
    /\ op' = [op EXCEPT ![p] = o]
    /\ cfg' = [cfg EXCEPT ![p] = c]
    /\ raw' = [raw EXCEPT ![p] = r]
    /\ dbhash' = [dbhash EXCEPT ![p] = h]
    /\ outerErr' = [outerErr EXCEPT ![p] = e]
    /\ baseErr' = [baseErr EXCEPT ![p] = NotCalled]
    /\ ares' = [ares EXCEPT ![p] = NoRes]
    /\ saveErr' = [saveErr EXCEPT ![p] = NoErr]
    /\ afterStop' = [afterStop EXCEPT ![p] = stopped]
    /\ markErr' = [markErr EXCEPT ![p] = NotCalled]
    /\ UNCHANGED <<others, gauges, shared, pre, hist, everBuilt, cmd>>

\* SaveAndApplyConfig, up to WithLock: rawConfig, err := json.Marshal(&cfg)
SaveAndApplyConfig(p) ==
    /\ db.rows + SavesInFlight < MaxRows
    /\ \E c \in UserCfgs : Begin(p, "Save", c, Marshal(c), ZeroHash, NoErr, "lock")

\* SaveAndApplyDefaultConfig, up to WithLock
SaveAndApplyDefaultConfig(p) ==
    /\ db.rows + SavesInFlight < MaxRows
    /\ Begin(p, "SaveDefault", NoCfg, NilRaw, ZeroHash, NoErr, "lock")

\* ApplyConfig, up to WithLock: Load, and the early return when it fails
ApplyConfig(p) ==
    \E r \in DbDocs :
        LET l == Load(r) IN
        IF ApplyConfigLoadFailed(l)
        THEN Begin(p, "Apply", NoCfg, NilRaw, DbRecord(r).hash, ErrLoad, "ret")
        ELSE Begin(p, "Apply", l.cfg, NilRaw, DbRecord(r).hash, NoErr, "lock")

\* am.Base.WithLock(func() { ... }): entry
Lock(p) ==
    /\ pc[p] = "lock"
    /\ WithLockMayEnter(p)
    /\ lock' = p
    /\ pre' = Snapshot
    /\ pc' = [pc EXCEPT ![p] = IF op[p] = "Apply" THEN "applyA" ELSE "save"]
    /\ UNCHANGED <<others, gauges, defaultConfiguration, base, stopped, disk, db, marks, hist, everBuilt,
                   op, cfg, raw, dbhash, baseErr, ares, saveErr, outerErr, afterStop, cmd, markErr>>

\* The save paths inside the lock, up to the callback: the default path loads the
\* default configuration; then the store starts the save and runs the callback,
\* unless the write fails first.
SaveBegin(p) ==
    /\ pc[p] = "save"
    /\ cmd' = [cmd EXCEPT ![p] = SaveCmd(op[p], raw[p], defaultConfiguration)]
    /\ LET l == Load(defaultConfiguration) IN
       IF op[p] = "SaveDefault" /\ DefaultLoadFailed(l)
       THEN /\ outerErr' = [outerErr EXCEPT ![p] = ErrLoad]
            /\ pc' = [pc EXCEPT ![p] = "unlock"]
            /\ UNCHANGED <<cfg, raw, saveErr>>
       ELSE /\ cfg' = [cfg EXCEPT ![p] = IF op[p] = "SaveDefault" THEN l.cfg ELSE @]
            /\ raw' = [raw EXCEPT ![p] = CallbackRaw(op[p], raw[p], defaultConfiguration)]
            /\ \E e \in InsertOutcomes :
                IF e # NoErr
                THEN /\ saveErr' = [saveErr EXCEPT ![p] = e]
                     /\ outerErr' = [outerErr EXCEPT ![p] = OuterErrOf(op[p], e)]
                     /\ pc' = [pc EXCEPT ![p] = "unlock"]
                ELSE /\ pc' = [pc EXCEPT ![p] = "applyA"]
                     /\ UNCHANGED <<saveErr, outerErr>>
    /\ UNCHANGED <<others, gauges, shared, pre, hist, everBuilt, op, dbhash, baseErr, ares, afterStop, markErr>>

\* where applyConfig returns to
AfterApply(p) == IF op[p] = "Apply" THEN "mark" ELSE "commit"

\* the applyConfig call of p that has just returned, as the next call's history:
\* its raw bytes and template files when it returned no error
Record(p) ==
    IF ares[p].err = NoErr
    THEN [raw |-> raw[p], files |-> cfg[p].tf.files, ok |-> TRUE]
    ELSE NoHist

\* applyConfig, first part: marshal when rawConfig is nil, compare the hash, inject
\* the default template, persist the templates, return when nothing changed.
ApplyA(p) ==
    /\ pc[p] = "applyA"
    /\ LET r == IF raw[p] = NilRaw THEN MarshalAm(cfg[p].am) ELSE raw[p]
           amConfigChanged == ConfigChanged(base.configHash, r)
           files == InjectDefault(cfg[p].tf)
       IN \E o \in PersistTemplates(files, disk) :
            /\ raw' = [raw EXCEPT ![p] = r]
            /\ disk' = o.disk
            /\ IF o.err # NoErr
               THEN /\ ares' = [ares EXCEPT ![p] = [changed |-> FALSE, err |-> o.err]]
                    /\ cfg' = [cfg EXCEPT ![p].tf = [isnil |-> FALSE, files |-> files]]
                    /\ pc' = [pc EXCEPT ![p] = AfterApply(p)]
               ELSE /\ cfg' = [cfg EXCEPT ![p].tf = [isnil |-> FALSE, files |-> files],
                                          ![p].am.templates = {f[1] : f \in files}]
                    /\ IF ~amConfigChanged /\ ~o.changed
                       THEN /\ ares' = [ares EXCEPT ![p] = [changed |-> FALSE, err |-> NoErr]]
                            /\ pc' = [pc EXCEPT ![p] = AfterApply(p)]
                               ELSE /\ pc' = [pc EXCEPT ![p] = "applyB"]
                            /\ UNCHANGED ares
    /\ UNCHANGED <<others, gauges, defaultConfiguration, lock, base, stopped, db, marks, pre, hist, everBuilt,
                   op, dbhash, baseErr, saveErr, outerErr, afterStop, cmd, markErr>>

\* what am.Base.ApplyConfig can return: nil, or the error of building the
\* receiver integrations
BuildOutcomes == {NoErr, ErrBuild}

\* Base.ApplyConfig(rawAlertmanagerConfig, alertmanagerConfig, receivers): on a build
\* error Base is left as it was; else the new configuration is swapped in whole,
\* its hash becomes the config hash and Base is ready.
BaseApplyConfig(b, r, am, e) ==
    IF e = NoErr THEN [ready |-> TRUE, configHash |-> Md5(r), am |-> am] ELSE b

\* variant with a fault: the new raw bytes go to Base with the configuration
\* that is active
AlertingConfigurationStale(r, c) ==
    [rawAlertmanagerConfig |-> r, alertmanagerConfig |-> base.am]

\* applyConfig: AlertingConfiguration{rawAlertmanagerConfig: rawConfig,
\* alertmanagerConfig: cfg.AlertmanagerConfig, ...}
AlertingConfiguration(r, c) ==
    [rawAlertmanagerConfig |-> r, alertmanagerConfig |-> c.AlertmanagerConfig]

\* variant with a fault: the metrics are updated whatever Base.ApplyConfig returned
MetricsUpdatedAlways(e) == TRUE

\* applyConfig after Base.ApplyConfig: "if err != nil { return false, err }" comes
\* before am.updateConfigMetrics(cfg)
MetricsUpdated(e) == e = NoErr

\* applyConfig, second part: am.Base.ApplyConfig, which swaps in the new
\* configuration and makes the instance ready unless the build fails.
ApplyB(p) ==
    /\ pc[p] = "applyB"
    /\ \E e \in BuildOutcomes :
        /\ baseErr' = [baseErr EXCEPT ![p] = e]
        /\ LET conf == AlertingConfiguration(raw[p], [AlertmanagerConfig |-> cfg[p].am])
           IN base' = BaseApplyConfig(base, conf.rawAlertmanagerConfig,
                                      conf.alertmanagerConfig, e)
        /\ everBuilt' = (everBuilt \/ e = NoErr)
        /\ ares' = [ares EXCEPT ![p] = ApplyConfigResult(e)]
        /\ pc' = [pc EXCEPT ![p] = IF MetricsUpdated(e) THEN "applyC" ELSE AfterApply(p)]
    /\ UNCHANGED <<others, gauges, defaultConfiguration, lock, stopped, disk, db, marks, pre, hist,
                   op, cfg, raw, dbhash, saveErr, outerErr, afterStop, cmd, markErr>>

\* variant with a fault: the hash gauge is set from the hash the instance had when
\* the lock was taken
MetricsHashBefore(b, before) == before.configHash

\* variant with a fault: the hash gauge is set from the zero sum
MetricsHashZero(b, before) == ZeroHash

\* updateConfigMetrics: the hash the gauge is set from is read from Base at the
\* call, am.Base.ConfigHash()
MetricsHash(b, before) == b.configHash

\* applyConfig, third part: am.updateConfigMetrics(cfg) and return true, nil; still
\* inside the function WithLock runs.
ApplyC(p) ==
    /\ pc[p] = "applyC"
    /\ gauges' = updateConfigMetrics(UsageConfig(cfg[p].am), Sum16(MetricsHash(base, pre.base)))
    /\ pc' = [pc EXCEPT ![p] = AfterApply(p)]
    /\ UNCHANGED <<others, shared, pre, hist, everBuilt,
                   op, cfg, raw, dbhash, baseErr, ares, saveErr, outerErr, afterStop, cmd, markErr>>

\* SaveAlertmanagerConfigurationWithCallback after the callback returned: roll
\* back when the callback failed, else commit; then the save path sets outerErr.
Commit(p) ==
    /\ pc[p] = "commit"
    /\ LET cb == Callback(ares[p].err) IN
       \E e \in CommitOutcomes :
        LET res == IF cb # NoErr THEN cb ELSE e IN
        /\ saveErr' = [saveErr EXCEPT ![p] = res]
        /\ db' = IF res = NoErr THEN Committed(cmd[p]) ELSE db
        /\ outerErr' = [outerErr EXCEPT ![p] = IF res # NoErr THEN OuterErrOf(op[p], res) ELSE @]
    /\ hist' = Record(p)
    /\ pc' = [pc EXCEPT ![p] = "unlock"]
    /\ UNCHANGED <<others, gauges, defaultConfiguration, lock, base, stopped, disk, marks, pre, everBuilt,
                   op, cfg, raw, dbhash, baseErr, ares, afterStop, cmd, markErr>>

\* variant with a fault: the configuration is marked whenever the apply did not
\* fail, also when it changed nothing
MarkWantedWhenNoError(res) == res.err = NoErr

\* applyAndMarkConfig: whether MarkConfigurationAsApplied is called, given what
\* applyConfig returned (err != nil returns first; then "if configChanged")
MarkWanted(res) == res.err = NoErr /\ res.changed

\* applyAndMarkConfig after applyConfig returned, and ApplyConfig's outerErr
Mark(p) ==
    /\ pc[p] = "mark"
    /\ \E e \in MarkOutcomes :
        LET called == MarkWanted(ares[p])
            res == IF ares[p].err # NoErr THEN ares[p].err
                   ELSE IF called THEN e ELSE NoErr
        IN /\ marks' = IF called /\ e = NoErr THEN marks \cup {MarkCmd(orgID, dbhash[p])} ELSE marks
           /\ markErr' = [markErr EXCEPT ![p] = IF called THEN e ELSE NotCalled]
           /\ outerErr' = [outerErr EXCEPT ![p] = res]
    /\ hist' = Record(p)
    /\ pc' = [pc EXCEPT ![p] = "unlock"]
    /\ UNCHANGED <<others, gauges, defaultConfiguration, lock, base, stopped, disk, db, pre, everBuilt,
                   op, cfg, raw, dbhash, baseErr, ares, saveErr, afterStop, cmd>>

\* the caller's locals once the call has returned
Returned(p) ==
    /\ pc' = [pc EXCEPT ![p] = "idle"]
    /\ op' = [op EXCEPT ![p] = "none"]
    /\ cfg' = [cfg EXCEPT ![p] = NoCfg]
    /\ raw' = [raw EXCEPT ![p] = NilRaw]
    /\ dbhash' = [dbhash EXCEPT ![p] = ZeroHash]
    /\ baseErr' = [baseErr EXCEPT ![p] = NotCalled]
    /\ ares' = [ares EXCEPT ![p] = NoRes]
    /\ saveErr' = [saveErr EXCEPT ![p] = NoErr]
    /\ outerErr' = [outerErr EXCEPT ![p] = NoErr]
    /\ afterStop' = [afterStop EXCEPT ![p] = FALSE]
    /\ markErr' = [markErr EXCEPT ![p] = NotCalled]
    /\ cmd' = [cmd EXCEPT ![p] = NoCmd]

\* am.Base.WithLock: exit, and the return of outerErr to the caller
Unlock(p) ==
    /\ pc[p] = "unlock"
    /\ lock' = NoProc
    /\ pre' = NoPre
    /\ Returned(p)
    /\ UNCHANGED <<others, gauges, defaultConfiguration, base, stopped, disk, db, marks, hist, everBuilt>>

\* ApplyConfig: return fmt.Errorf("failed to parse Alertmanager config: %w", err)
Return(p) ==
    /\ pc[p] = "ret"
    /\ Returned(p)
    /\ UNCHANGED <<others, gauges, shared, pre, hist, everBuilt>>

Next ==
    \/ StopAndWait
    \/ \E p \in Procs :
        \/ SaveAndApplyConfig(p)
        \/ SaveAndApplyDefaultConfig(p)
        \/ ApplyConfig(p)
        \/ Lock(p)
        \/ SaveBegin(p)
        \/ ApplyA(p)
        \/ ApplyB(p)
        \/ ApplyC(p)
        \/ Commit(p)
        \/ Mark(p)
        \/ Unlock(p)
        \/ Return(p)

Spec == Init /\ [][Next]_vars

\* ------------------------------------- the metric functions on their own
\* am.updateConfigMetrics(cfg) on its own
UpdateConfigMetrics ==
    /\ \E c \in MetricCfgs, h \in HashesOfConfigs :
        fn' = [f |-> "updateConfigMetrics", cfg |-> c, configHash |-> h,
               gauges |-> updateConfigMetrics(c, h)]
    /\ UNCHANGED <<shared, locals, pre, hist, everBuilt, gauges, tenants, snap, alerts, put, maint>>

\* hashAsMetricValue(data) on its own, with the call before it
HashAsMetricValue ==
    /\ \E h \in Hashes :
        fn' = [f |-> "hashAsMetricValue", data |-> h, value |-> hashAsMetricValue(h),
               before |-> IF fn.f = "hashAsMetricValue"
                          THEN [data |-> fn.data, value |-> fn.value]
                          ELSE [data |-> h, value |-> hashAsMetricValue(h)]]
    /\ UNCHANGED <<shared, locals, pre, hist, everBuilt, gauges, tenants, snap, alerts, put, maint>>

NextMetrics == UpdateConfigMetrics \/ HashAsMetricValue

SpecMetrics == Init /\ [][NextMetrics]_vars

\* ------------------------------------------------------------------ alerts
\* amv2.PostableAlert: annotations, start and end time (0: not set), and the
\* alert itself, here its labels
PostableAlert(annotations, startsAt, endsAt, labels) ==
    [Annotations |-> annotations, StartsAt |-> startsAt, EndsAt |-> endsAt, Alert |-> labels]

\* inputs
AlertUp == PostableAlert({<<"summary", "up">>}, 1, 2, {<<"alertname", "up">>})
AlertOpen == PostableAlert({}, 1, 0, {<<"alertname", "open">>})
AlertNoLabels == PostableAlert({<<"summary", "x">>}, 1, 2, {})
AlertEndsFirst == PostableAlert({}, 2, 1, {<<"alertname", "late">>})
PostableAlertInputs == {AlertUp, AlertOpen, AlertNoLabels, AlertEndsFirst}
SeqsUpTo(S, n) == UNION {[1..k -> S] : k \in 0..n}
Batches == SeqsUpTo(PostableAlertInputs, MaxBatch)

\* Base.PutAlerts, validation of one alert: it has labels and does not end
\* before it starts
ValidAlert(a) == a.Alert # {} /\ (a.EndsAt = 0 \/ a.StartsAt <= a.EndsAt)
InvalidAlert(a) == ~ValidAlert(a)
ValidationErrorOf(a) == IF a.Alert = {} THEN "no labels" ELSE "ends before it starts"

\* variant with a fault: only the error of the first invalid alert is kept
ErrorsOfFirstOnly(bad) == IF bad = <<>> THEN <<>> ELSE <<ValidationErrorOf(bad[1])>>

\* Base.PutAlerts: the Errors of the AlertValidationError it builds, one appended
\* with each invalid alert
ErrorsOf(bad) == [i \in 1..Len(bad) |-> ValidationErrorOf(bad[i])]

\* Base.PutAlerts(alerts): the valid alerts are put into the pipeline; the invalid
\* ones come back in an AlertValidationError, each with its error (isnil: the
\* error returned is nil)
BasePutAlerts(as) ==
    LET bad == SelectSeq(as, InvalidAlert) IN
    [accepted |-> SelectSeq(as, ValidAlert),
     err |-> [isnil |-> bad = <<>>,
              Alerts |-> bad,
              Errors |-> ErrorsOf(bad)]]

\* variant with a fault: the last alert of the batch is not forwarded
ForwardedButLast(postableAlerts) ==
    [i \in 1..(Len(postableAlerts) - 1) |->
        [Annotations |-> postableAlerts[i].Annotations, EndsAt |-> postableAlerts[i].EndsAt,
         StartsAt |-> postableAlerts[i].StartsAt, Alert |-> postableAlerts[i].Alert]]

\* variant with a fault: the start and end times are exchanged
ForwardedTimesExchanged(postableAlerts) ==
    [i \in 1..Len(postableAlerts) |->
        [Annotations |-> postableAlerts[i].Annotations, EndsAt |-> postableAlerts[i].StartsAt,
         StartsAt |-> postableAlerts[i].EndsAt, Alert |-> postableAlerts[i].Alert]]

\* alertmanager.PutAlerts: the alertingNotify.PostableAlerts built from the batch
Forwarded(postableAlerts) ==
    [i \in 1..Len(postableAlerts) |->
        [Annotations |-> postableAlerts[i].Annotations, EndsAt |-> postableAlerts[i].EndsAt,
         StartsAt |-> postableAlerts[i].StartsAt, Alert |-> postableAlerts[i].Alert]]

Range(q) == {q[i] : i \in 1..Len(q)}

\* alertmanager.PutAlerts: return am.Base.PutAlerts(alerts); no lock is taken
PutAlerts ==
    /\ \E b \in Batches :
        LET sent == Forwarded(b)
            res == BasePutAlerts(sent)
        IN /\ alerts' = alerts \cup Range(res.accepted)
           /\ put' = [called |-> TRUE, batch |-> b, sent |-> sent,
                      accepted |-> res.accepted, err |-> res.err]
    /\ UNCHANGED <<shared, locals, pre, hist, everBuilt, gauges, tenants, snap, fn, maint>>

NextAlerts == PutAlerts

SpecAlerts == Init /\ [][NextAlerts]_vars

\* ------------------------------------------------- maintenance and CleanUp
ErrIO == "io"                  \* the file store failed to write
ErrCancelled == "cancelled"    \* the context of the call was cancelled

\* contexts: context.Background(), and the ctx argument of NewAlertmanager
Background == "background"
ConstructorCtx == "ctx"

\* ctx.Done() is closed: never for context.Background()
ContextDone(c) == c = ConstructorCtx /\ ctxDone

\* variant with a fault: the maintenance functions persist with the context of
\* the constructor
PersistContextOfConstructor(k) == ConstructorCtx

\* silencesOptions / nflogOptions maintenanceFunc:
\* fileStore.Persist(context.Background(), <name>, state)
PersistContext(k) == Background

\* FileStore.Persist(ctx, name, state): the snapshot is written whole or not at
\* all; a cancelled context aborts it, an I/O error fails it
FileStorePersist(c, k, w) ==
    IF ContextDone(c)
    THEN {[err |-> ErrCancelled, wd |-> w]}
    ELSE {[err |-> NoErr, wd |-> [exists |-> TRUE, snaps |-> w.snaps \cup {k}]],
          [err |-> ErrIO, wd |-> w]}

\* FileStore.CleanUp: the working directory w is removed with all that is in it,
\* the template files d too; no error is returned
FileStoreCleanUp(w, d) == [wd |-> RemovedDir, disk |-> {}]

\* variant with a fault: CleanUp does not reach the file store
CleanUpSkipped(w, d) == [wd |-> w, disk |-> d]

\* alertmanager.CleanUp: am.fileStore.CleanUp()
CleanUpDir(w, d) == FileStoreCleanUp(w, d)

\* Base.StopAndWait returns when the maintenance goroutines have exited
BaseStopAndWaitReturns == \A k \in SnapshotNames : mpc[k] = "exited"

\* variant with a fault: StopAndWait returns without waiting for Base
StopAndWaitReturnsAtOnce == TRUE

\* alertmanager.StopAndWait returns when am.Base.StopAndWait() has returned
StopAndWaitReturns == BaseStopAndWaitReturns

\* the caller of CleanUp calls it once StopAndWait has returned
CleanUpMayStart == stopped

\* retentionNotificationsAndSilences = 5 * 24 * time.Hour, in days
retentionNotificationsAndSilences == 5

\* variant with a fault: the retention option is left at its zero value
RetentionUnset(k) == 0

\* silencesOptions / nflogOptions: retention
Retention(k) == retentionNotificationsAndSilences

\* Base, garbage collection of a state at time t: the entries older than the
\* retention are dropped, the others kept
GC(S, t, ret) == {e \in S : t - e <= ret}

\* state.MarshalBinary: the entries in the order of their time
RECURSIVE MarshalBinary(_)
MarshalBinary(S) ==
    IF S = {} THEN <<>>
    ELSE LET m == CHOOSE x \in S : \A y \in S : x <= y
         IN <<m>> \o MarshalBinary(S \ {m})

\* Base, loading a state from the bytes of its snapshot file: every entry of the
\* file, whatever its age
UnmarshalBinary(b) == {b[i] : i \in 1..Len(b)}

\* variant with a fault: both maintenance functions persist under the name of
\* the notification log
PersistNameOfNflog(k) == NotificationLogFilename

\* the name the maintenanceFunc of state k gives to fileStore.Persist
PersistName(k) == k

\* the name NewAlertmanager gives to fileStore.FilepathFor for the file of state k
FilepathName(k) == k

ErrKV == "kv"                  \* the fallback store failed to answer

\* FileStore.FilepathFor(ctx, name) in the working directory w with file contents
\* c and fallback store s: a file that is there is left alone; one that is absent
\* is written from the value under its key, when there is one
FilepathFor(n, w, c, s) ==
    IF n \notin w.snaps /\ s[n].has
    THEN [wd |-> [exists |-> TRUE, snaps |-> w.snaps \cup {n}],
          content |-> [c EXCEPT ![n] = s[n]]]
    ELSE [wd |-> w, content |-> c]

\* the context given to NewAlertmanager is cancelled (request end, shutdown)
CancelContext ==
    /\ ~ctxDone
    /\ ctxDone' = TRUE
    /\ UNCHANGED <<shared, locals, pre, hist, everBuilt, gauges, tenants, snap, fn, alerts, put,
                   mpc, mres, stopc, wd, cpc, cleaned>>

\* a maintenance tick of state k: the goroutine calls the maintenanceFunc
Tick(k) ==
    /\ up
    /\ mpc[k] = "wait"
    /\ mem' = [mem EXCEPT ![k] = GC(@, now, Retention(k))]
    /\ mpc' = [mpc EXCEPT ![k] = "persist"]
    /\ UNCHANGED <<shared, locals, pre, hist, everBuilt, gauges, tenants, fn, alerts, put,
                   mres, ctxDone, stopc, wd, cpc, cleaned,
                   now, content, kv, persisted, loaded, up>>

\* the goroutine of state k sees the stop signal and runs the maintenanceFunc a
\* last time
FinalFlush(k) ==
    /\ up
    /\ mpc[k] = "wait" /\ stopc
    /\ mem' = [mem EXCEPT ![k] = GC(@, now, Retention(k))]
    /\ mpc' = [mpc EXCEPT ![k] = "final"]
    /\ UNCHANGED <<shared, locals, pre, hist, everBuilt, gauges, tenants, fn, alerts, put,
                   mres, ctxDone, stopc, wd, cpc, cleaned,
                   now, content, kv, persisted, loaded, up>>

\* the maintenanceFunc of state k returns: fileStore.Persist has written the
\* snapshot or failed; after the last run the goroutine exits
MaintenanceFunc(k) ==
    /\ mpc[k] \in {"persist", "final"}
    /\ LET n == PersistName(k)
           state == Value(MarshalBinary(mem[k]))
       IN \E o \in FileStorePersist(PersistContext(k), n, wd) :
            /\ mres' = [mres EXCEPT ![k] = o.err]
            /\ wd' = o.wd
            /\ IF o.err = NoErr
               THEN /\ content' = [content EXCEPT ![n] = state]
                    /\ kv' = [kv EXCEPT ![n] = state]
                    /\ persisted' = [persisted EXCEPT ![k] = state]
                    /\ loaded' = [loaded EXCEPT ![k] = FALSE, ![n] = FALSE]
               ELSE UNCHANGED <<content, kv, persisted, loaded>>
    /\ mpc' = [mpc EXCEPT ![k] = IF mpc[k] = "final" THEN "exited" ELSE "wait"]
    /\ UNCHANGED <<shared, locals, pre, hist, everBuilt, gauges, tenants, fn, alerts, put,
                   ctxDone, stopc, cpc, cleaned, now, mem, up>>

\* alertmanager.StopAndWait, first part: Base signals its goroutines to stop
StopSignal ==
    /\ ~stopc /\ ~stopped
    /\ stopc' = TRUE
    /\ UNCHANGED <<shared, locals, pre, hist, everBuilt, gauges, tenants, snap, fn, alerts, put,
                   mpc, mres, ctxDone, wd, cpc, cleaned>>

\* alertmanager.StopAndWait, second part: the call returns
StopReturn ==
    /\ stopc /\ ~stopped
    /\ StopAndWaitReturns
    /\ stopped' = TRUE
    /\ UNCHANGED <<defaultConfiguration, lock, base, disk, db, marks, locals, pre, hist,
                   everBuilt, gauges, others>>

\* alertmanager.CleanUp is called
CleanUpBegin ==
    /\ cpc = "idle"
    /\ CleanUpMayStart
    /\ Len(cleaned) < MaxCleanUps
    /\ cpc' = "removing"
    /\ cleaned' = Append(cleaned, wd)
    /\ UNCHANGED <<shared, locals, pre, hist, everBuilt, gauges, tenants, snap, fn, alerts, put,
                   mpc, mres, ctxDone, stopc, wd>>

\* alertmanager.CleanUp returns: the working directory, with the snapshot and
\* template files in it, is removed
CleanUpEnd ==
    /\ cpc = "removing"
    /\ wd' = CleanUpDir(wd, disk).wd
    /\ disk' = CleanUpDir(wd, disk).disk
    /\ content' = [n \in SnapshotNames |->
                        IF n \in CleanUpDir(wd, disk).wd.snaps THEN content[n] ELSE NoValue]
    /\ cpc' = "idle"
    /\ UNCHANGED <<defaultConfiguration, lock, base, stopped, db, marks, locals, pre, hist,
                   everBuilt, gauges, tenants, fn, alerts, put, mpc, mres, ctxDone, stopc, cleaned,
                   now, mem, kv, persisted, loaded, up>>

NextMaint ==
    \/ CancelContext
    \/ StopSignal
    \/ StopReturn
    \/ CleanUpBegin
    \/ CleanUpEnd
    \/ \E k \in SnapshotNames :
        \/ Tick(k)
        \/ FinalFlush(k)
        \/ MaintenanceFunc(k)

SpecMaint == Init /\ [][NextMaint]_vars

\* The goroutines of Base are scheduled, so a maintenanceFunc that was called
\* returns; a goroutine that keeps coming back to its select takes the stop signal.
SpecMaintFair ==
    /\ SpecMaint
    /\ \A k \in SnapshotNames : WF_vars(MaintenanceFunc(k)) /\ SF_vars(FinalFlush(k))

\* --------------------------------------------- snapshots over a restart
\* what the fallback store answers to the Get of one FilepathFor call
KVOutcomes == {NoErr, ErrKV}

\* a day passes
Advance ==
    /\ now < MaxNow
    /\ now' = now + 1
    /\ UNCHANGED <<shared, locals, pre, hist, everBuilt, gauges, tenants, fn, alerts, put, maint,
                   mem, content, kv, persisted, loaded, up>>

\* Base: a silence of state "silences" expires, or a notification is logged in
\* state "notifications"; the entry carries the time
AddEntry(k) ==
    /\ up
    /\ now <= MaxEntryDay
    /\ now \notin mem[k]
    /\ mem' = [mem EXCEPT ![k] = @ \cup {now}]
    /\ UNCHANGED <<shared, locals, pre, hist, everBuilt, gauges, tenants, fn, alerts, put, maint,
                   now, content, kv, persisted, loaded, up>>

\* The process ends and NewAlertmanager runs again for the tenant: the working
\* directory may have been lost with the process (lost), the fallback store has
\* not.  FilepathFor resolves the notification log file, then the silences file;
\* an error of either makes NewAlertmanager return it and no instance.  Base then
\* loads each state from its file and starts the maintenance goroutines.  The
\* configuration state of the instance is as Init has it.
NewAlertmanager ==
    \E lost \in BOOLEAN, e1, e2 \in KVOutcomes :
        LET w0 == IF lost THEN RemovedDir ELSE wd
            c0 == IF lost THEN [n \in SnapshotNames |-> NoValue] ELSE content
            f1 == IF e1 = NoErr
                  THEN FilepathFor(FilepathName(NotificationLogFilename), w0, c0, kv)
                  ELSE [wd |-> w0, content |-> c0]
            f2 == IF e1 = NoErr /\ e2 = NoErr
                  THEN FilepathFor(FilepathName(SilencesFilename), f1.wd, f1.content, kv)
                  ELSE f1
            ok == e1 = NoErr /\ e2 = NoErr
        IN /\ wd' = f2.wd
           /\ content' = f2.content
           /\ up' = ok
           /\ mem' = [k \in SnapshotNames |->
                        IF ok /\ f2.content[FilepathName(k)].has
                        THEN UnmarshalBinary(f2.content[FilepathName(k)].bytes)
                        ELSE {}]
           /\ loaded' = [k \in SnapshotNames |-> ok /\ lost]
           /\ mpc' = [k \in SnapshotNames |-> "wait"]
           /\ mres' = [k \in SnapshotNames |-> NotCalled]
           /\ UNCHANGED <<shared, locals, pre, hist, everBuilt, gauges, tenants, fn, alerts, put,
                          ctxDone, stopc, cpc, cleaned, now, kv, persisted>>

NextSnapshots ==
    \/ Advance
    \/ NewAlertmanager
    \/ \E k \in SnapshotNames :
        \/ AddEntry(k)
        \/ Tick(k)
        \/ MaintenanceFunc(k)

SpecSnapshots == Init /\ [][NextSnapshots]_vars

\* -------------------------------------------------- two tenants side by side
\* The instances of two tenants, each made by its own NewAlertmanager call, with
\* the operations of an instance at the grain of the lock: a save enters
\* WithLock, runs the function (templates to the working directory, then
\* Base.ApplyConfig) and leaves; a maintenanceFunc persists a snapshot; CleanUp
\* removes the working directory.  A snapshot file is (name, tenant whose state
\* it holds).

\* SaveAndApplyConfig(cfg) of the instance of tenant o is called
TenantSave(o) ==
    /\ tpc[o] = "idle"
    /\ \E c \in UserCfgs : tcfg' = [tcfg EXCEPT ![o] = c]
    /\ tpc' = [tpc EXCEPT ![o] = "lock"]
    /\ actor' = o
    /\ UNCHANGED <<shared, locals, pre, hist, everBuilt, gauges, fn, alerts, put, maint, snap,
                   tlock, tactive, tfs>>

\* am.Base.WithLock of the instance of tenant o: entry
TenantLock(o) ==
    /\ tpc[o] = "lock"
    /\ tlock[BaseOf(o)] = NoOrg
    /\ tlock' = [tlock EXCEPT ![BaseOf(o)] = o]
    /\ tpc' = [tpc EXCEPT ![o] = "in"]
    /\ actor' = o
    /\ UNCHANGED <<shared, locals, pre, hist, everBuilt, gauges, fn, alerts, put, maint, snap,
                   tcfg, tactive, tfs>>

\* the function WithLock runs: applyConfig persists the templates to the working
\* directory of the instance and calls Base.ApplyConfig of its Base
TenantApply(o) ==
    /\ tpc[o] = "in"
    /\ \E e \in BuildOutcomes :
        tactive' = [tactive EXCEPT ![BaseOf(o)] =
                        BaseApplyConfig(@, Marshal(tcfg[o]), tcfg[o].am, e)]
    /\ tfs' = [tfs EXCEPT ![WorkingPath(o)].exists = TRUE,
                          ![WorkingPath(o)].disk = InjectDefault(tcfg[o].tf)]
    /\ tpc' = [tpc EXCEPT ![o] = "out"]
    /\ actor' = o
    /\ UNCHANGED <<shared, locals, pre, hist, everBuilt, gauges, fn, alerts, put, maint, snap,
                   tcfg, tlock>>

\* am.Base.WithLock of the instance of tenant o: exit, and the return
TenantUnlock(o) ==
    /\ tpc[o] = "out"
    /\ tlock' = [tlock EXCEPT ![BaseOf(o)] = NoOrg]
    /\ tcfg' = [tcfg EXCEPT ![o] = NoCfg]
    /\ tpc' = [tpc EXCEPT ![o] = "idle"]
    /\ actor' = o
    /\ UNCHANGED <<shared, locals, pre, hist, everBuilt, gauges, fn, alerts, put, maint, snap,
                   tactive, tfs>>

\* the maintenanceFunc of state k of the instance of tenant o: fileStore.Persist
\* writes the snapshot into the working directory of the instance
TenantPersist(o, k) ==
    /\ tfs' = [tfs EXCEPT ![WorkingPath(o)].exists = TRUE,
                          ![WorkingPath(o)].snaps = WriteOver(@, {<<PersistName(k), o>>})]
    /\ tfs' # tfs
    /\ actor' = o
    /\ UNCHANGED <<shared, locals, pre, hist, everBuilt, gauges, fn, alerts, put, maint, snap,
                   tpc, tcfg, tlock, tactive>>

\* CleanUp of the instance of tenant o, no call of it in progress: the file
\* store removes the working directory it was made with
TenantCleanUp(o) ==
    /\ tpc[o] = "idle"
    /\ tfs[WorkingPath(o)].exists
    /\ tfs' = [tfs EXCEPT ![WorkingPath(o)] = [exists |-> FALSE, snaps |-> {}, disk |-> {}]]
    /\ actor' = o
    /\ UNCHANGED <<shared, locals, pre, hist, everBuilt, gauges, fn, alerts, put, maint, snap,
                   tpc, tcfg, tlock, tactive>>

NextTenants ==
    \E o \in Orgs :
        \/ TenantSave(o)
        \/ TenantLock(o)
        \/ TenantApply(o)
        \/ TenantUnlock(o)
        \/ TenantCleanUp(o)
        \/ \E k \in SnapshotNames : TenantPersist(o, k)

SpecTenants == Init /\ [][NextTenants]_vars

\* ------------------------------------------------------------------ claims
SaveOps == {"Save", "SaveDefault"}

\* applyConfig of p has returned and p still holds the lock
ApplyReturned(p) == pc[p] \in {"commit", "mark"}

\* p runs applyConfig now for the raw bytes and template files of the call before,
\* which returned no error
SameAsBefore(p) == hist.ok /\ hist.raw = raw[p] /\ hist.files = cfg[p].tf.files

C2_TransactionalCoupling ==
    \A p \in Procs :
        (pc[p] = "unlock" /\ op[p] \in SaveOps /\ ares[p].err # NoErr)
            => db = pre.db /\ marks = pre.marks /\ saveErr[p] # NoErr

C2_Witness ==
    \E p \in Procs :
        /\ pc[p] = "unlock" /\ op[p] = "Save"
        /\ baseErr[p] = ErrBuild /\ saveErr[p] = ErrBuild
        /\ db = pre.db

\* C3 as claimed: whenever the store's save-with-callback returns an error in a
\* save path, Base is the same as before the call.
C3_PersistenceErrorLeavesPipeline ==
    \A p \in Procs :
        (pc[p] = "unlock" /\ op[p] \in SaveOps /\ saveErr[p] # NoErr)
            => base = pre.base

\* C4 as claimed: SaveAndApplyDefaultConfig returns a non-nil error when loading
\* the default configuration fails or the store's save-with-callback returns an
\* error.
C4_DefaultSaveReportsFailure ==
    \A p \in Procs :
        (pc[p] = "unlock" /\ op[p] = "SaveDefault"
            /\ (~Load(defaultConfiguration).ok \/ saveErr[p] # NoErr))
            => outerErr[p] # NoErr

\* Base holds either no configuration at all or one whole configuration
BaseWhole ==
    IF base.ready
    THEN base.configHash # ZeroHash /\ base.am.route \in base.am.receivers
    ELSE base.configHash = ZeroHash /\ base.am = NoCfg.am

\* C5: when Base.ApplyConfig fails inside applyConfig, applyConfig returns that
\* error with changed=false, Base (active hash and configuration) is the one from
\* before the call, and Base never holds part of a configuration.
C5_BuildErrorFailSafe ==
    /\ BaseWhole
    /\ \A p \in Procs :
        (pc[p] \in {"commit", "mark", "unlock"} /\ baseErr[p] = ErrBuild)
            => /\ ares[p] = [changed |-> FALSE, err |-> ErrBuild]
               /\ base = pre.base

C5_Witness ==
    \E p \in Procs :
        /\ ApplyReturned(p) /\ baseErr[p] = ErrBuild
        /\ base.ready /\ base = pre.base
        /\ base.configHash # Md5(raw[p])

\* C6: Ready() is true only if some applyConfig of this instance has rebuilt the
\* pipeline without error; a new instance, and one whose applies all failed, is
\* not ready.
C6_ReadyOnlyAfterApply == Ready => everBuilt

C6_Witness ==
    /\ Ready /\ everBuilt
    /\ \E p \in Procs : pc[p] \in {"commit", "mark"} /\ baseErr[p] = ErrBuild

\* C7: the instance becomes Ready only in a step in which Base.ApplyConfig returns
\* nil, and once Ready it stays Ready through every step before StopAndWait.
C7_Lifecycle ==
    [][/\ (Ready /\ ~stopped') => Ready'
       /\ (~Ready /\ Ready') => \E p \in Procs : pc[p] = "applyB" /\ baseErr'[p] = NoErr]_vars

C7_Witness ==
    /\ Ready
    /\ \E p \in Procs : pc[p] = "unlock" /\ outerErr[p] # NoErr
    /\ \E p \in Procs : pc[p] = "lock"

\* C8 as claimed: a step of a SaveAndApplyConfig, SaveAndApplyDefaultConfig or
\* ApplyConfig that started after StopAndWait returned changes neither the store
\* nor Base.
C8_StopIsTerminal ==
    [][(\E p \in Procs : afterStop[p] /\ pc[p] # "idle" /\ pc'[p] # pc[p])
          => UNCHANGED <<db, marks, base>>]_vars

InCritical(p) == pc[p] \in {"save", "applyA", "applyB", "applyC", "commit", "mark", "unlock"}

\* C9: at most one caller is inside a WithLock section (the save, applyConfig and
\* mark steps) at any time, and that caller holds the instance lock.
C9_MutualExclusion ==
    /\ \A p \in Procs : InCritical(p) => lock = p
    /\ Cardinality({p \in Procs : InCritical(p)}) <= 1

C9_Witness ==
    \E p, q \in Procs :
        /\ p # q
        /\ pc[p] = "applyB" /\ lock = p
        /\ pc[q] = "lock" /\ op[q] # op[p]

\* the document handed to ApplyConfig by p fails Load
ApplyingInvalid(p) ==
    op[p] = "Apply" /\ \E r \in DbDocs : ~Load(r).ok /\ dbhash[p] = DbRecord(r).hash

\* C10: when the document fails Load, ApplyConfig returns an error without taking
\* the lock and SaveAndApplyDefaultConfig returns an error, and in both the store
\* (row, applied marks), the template files and Base are not modified.
C10_LoadFailure ==
    /\ [](\A p \in Procs :
            /\ ApplyingInvalid(p) => pc[p] = "ret" /\ outerErr[p] = ErrLoad
            /\ (op[p] = "SaveDefault" /\ ~Load(defaultConfiguration).ok /\ pc[p] # "lock")
                  => /\ pc[p] \in {"save", "unlock"}
                     /\ pc[p] = "unlock" => outerErr[p] = ErrLoad
                     /\ db = pre.db /\ marks = pre.marks
                     /\ base = pre.base /\ disk = pre.disk)
    /\ [][\A p \in Procs :
            (ApplyingInvalid(p)' /\ pc'[p] # pc[p]) => UNCHANGED <<db, marks, base, disk, lock>>]_vars
    /\ [][\A p \in Procs :
            (ApplyingInvalid(p) /\ pc'[p] # pc[p]) => UNCHANGED <<db, marks, base, disk, lock>>]_vars

C10_Witness ==
    /\ \E p \in Procs : ApplyingInvalid(p) /\ pc[p] = "ret"
    /\ \E p \in Procs :
        op[p] = "SaveDefault" /\ ~Load(defaultConfiguration).ok /\ pc[p] = "unlock"
    /\ base.ready

\* p is inside or just past applyConfig for a document of the store's record
AppliesRecord(p) ==
    \E r \in DbDocs :
        /\ dbhash[p] = Md5(r)
        /\ Load(r).cfg.am.route = cfg[p].am.route
        /\ Load(r).cfg.am.receivers = cfg[p].am.receivers

\* C12: no step of an ApplyConfig call changes the stored configuration; the only
\* applied mark it can add carries the tenant of the instance and the
\* ConfigurationHash of the record it was given; it adds that mark when
\* applyConfig rebuilt the pipeline and the call returns no error.
C12_ApplyNeverSaves ==
    [][\A p \in Procs :
        (op[p] = "Apply" /\ pc'[p] # pc[p])
            => /\ db' = db
               /\ marks' \subseteq
                    marks \cup {[OrgID |-> orgID, ConfigurationHash |-> dbhash[p]]}
               /\ (pc[p] = "mark" /\ ares[p] = [changed |-> TRUE, err |-> NoErr]
                        /\ outerErr'[p] = NoErr)
                    => /\ [OrgID |-> orgID, ConfigurationHash |-> dbhash[p]] \in marks'
                       /\ AppliesRecord(p)]_vars

C12_Witness ==
    \E p \in Procs :
        /\ pc[p] = "unlock" /\ op[p] = "Apply"
        /\ ares[p].changed /\ outerErr[p] = NoErr
        /\ [OrgID |-> orgID, ConfigurationHash |-> dbhash[p]] \in marks
        /\ [OrgID |-> orgID, ConfigurationHash |-> dbhash[p]] \notin pre.marks
        /\ db.rows > 0 /\ db = pre.db
        /\ dbhash[p] # base.configHash

\* C13: in both save paths the bytes of the save command are the bytes handed to
\* applyConfig as rawConfig; so when a save that rebuilt the pipeline has
\* committed, the latest stored bytes are those bytes and the active hash is
\* their hash.
C13_SavedBytesAreHashedBytes ==
    \A p \in Procs :
        /\ (op[p] \in SaveOps /\ pc[p] \in {"applyA", "applyB", "applyC", "commit"})
                => cmd[p].AlertmanagerConfiguration = raw[p]
        /\ (op[p] \in SaveOps /\ pc[p] = "unlock" /\ saveErr[p] = NoErr /\ ares[p].changed)
                => /\ db.latest = raw[p]
                   /\ base.configHash = Md5(db.latest)

C13_Witness ==
    /\ \E p \in Procs :
        /\ op[p] = "SaveDefault" /\ pc[p] = "unlock"
        /\ saveErr[p] = NoErr /\ ares[p].changed
        /\ db.latest = defaultConfiguration /\ db.rows = 2
        /\ base.configHash = Md5(defaultConfiguration)
        /\ pre.base.ready /\ pre.base.configHash # base.configHash

\* C14: once applyConfig is past the template step, the template files of its
\* configuration name the default template exactly once, with the built-in
\* content, whether the map it was given was nil, empty or had its own entry of
\* that name; the files it persisted and the templates of every configuration
\* Base holds include the default template.
C14_DefaultTemplateInjected ==
    /\ \A p \in Procs :
        pc[p] \in {"applyB", "applyC", "commit", "mark"}
            => /\ ~cfg[p].tf.isnil
               /\ \A f \in cfg[p].tf.files :
                    f[1] = DefaultTemplateName => f[2] = DefaultTemplateString
               /\ <<DefaultTemplateName, DefaultTemplateString>> \in cfg[p].tf.files
               /\ ares[p].err # ErrTemplateIO
                    => /\ disk = cfg[p].tf.files
                       /\ DefaultTemplateName \in cfg[p].am.templates
    /\ base.ready => DefaultTemplateName \in base.am.templates

C14_Witness ==
    \E p \in Procs :
        /\ pc[p] = "applyB"
        /\ <<"t1.tmpl", "a">> \in cfg[p].tf.files
        /\ <<DefaultTemplateName, DefaultTemplateString>> \in disk
        /\ <<DefaultTemplateName, "mine">> \notin disk
        /\ base.ready /\ base.am.templates = {DefaultTemplateName}

\* every route of the tree under r, r first
RECURSIVE RouteNodes(_)
RECURSIVE RouteNodesOfAll(_)
RouteNodes(r) == <<r>> \o RouteNodesOfAll(r.Routes)
RouteNodesOfAll(rs) == IF rs = <<>> THEN <<>> ELSE RouteNodes(Head(rs)) \o RouteNodesOfAll(Tail(rs))

\* the sum of the numbers of the sequence q
RECURSIVE SumSeq(_)
SumSeq(q) == IF q = <<>> THEN 0 ELSE Head(q) + SumSeq(Tail(q))

\* the sum of g(x) over the elements x of the sequence q
SumOver(q, g(_)) == SumSeq([i \in 1..Len(q) |-> g(q[i])])

LenMatchers(r) == Len(r.Matchers)
LenMatchRE(r) == Cardinality(r.MatchRE)
LenMatch(r) == Cardinality(r.Match)
LenObjectMatchers(r) == Len(r.ObjectMatchers)
LenInhibitMatchers(i) == Len(i.SourceMatchers) + Len(i.TargetMatchers)
LenInhibitMatchRE(i) == Cardinality(i.SourceMatchRE) + Cardinality(i.TargetMatchRE)
LenInhibitMatch(i) == Cardinality(i.SourceMatch) + Cardinality(i.TargetMatch)

\* C15: the four matcher gauges updateConfigMetrics sets are, per style, the sum
\* over every route of the tree plus the source and target counts of every inhibit
\* rule (matchers to Matchers, match_re to MatchRE, match to Match, nothing to
\* ObjectMatchers); for a root with two object matchers and a child with one match
\* and one match_re and no inhibit rules they are ObjectMatchers 2, Match 1,
\* MatchRE 1, Matchers 0.
C15_MatcherAggregation ==
    fn.f = "updateConfigMetrics"
        => LET nodes == RouteNodes(fn.cfg.Route)
               rules == fn.cfg.InhibitRules
           IN /\ fn.gauges.Matchers =
                    SumOver(nodes, LenMatchers) + SumOver(rules, LenInhibitMatchers)
              /\ fn.gauges.MatchRE =
                    SumOver(nodes, LenMatchRE) + SumOver(rules, LenInhibitMatchRE)
              /\ fn.gauges.Match =
                    SumOver(nodes, LenMatch) + SumOver(rules, LenInhibitMatch)
              /\ fn.gauges.ObjectMatchers = SumOver(nodes, LenObjectMatchers)
              /\ (fn.cfg.Route = ExampleRoute /\ rules = <<>>)
                    => /\ fn.gauges.ObjectMatchers = 2 /\ fn.gauges.Match = 1
                       /\ fn.gauges.MatchRE = 1 /\ fn.gauges.Matchers = 0

C15_Witness ==
    /\ fn.f = "updateConfigMetrics"
    /\ Len(RouteNodes(fn.cfg.Route)) = 5
    /\ fn.cfg.InhibitRules = <<RuleNew, RuleOld>>
    /\ fn.cfg.Route.ObjectMatchers # <<>>
    /\ fn.gauges.Matchers = 4 /\ fn.gauges.MatchRE = 5
    /\ fn.gauges.Match = 5 /\ fn.gauges.ObjectMatchers = 3

\* C16: hashAsMetricValue(data) is the unsigned integer whose little-endian bytes
\* are data[0..5]; it is at least 0 and below 2^48; two sums with the same six
\* low bytes have the same value.
C16_HashAsMetricValue ==
    fn.f = "hashAsMetricValue"
        => /\ fn.value = <<fn.data[1] + 256 * fn.data[2], fn.data[3] + 256 * fn.data[4],
                           fn.data[5] + 256 * fn.data[6], 0>>
           /\ \A i \in 1..3 : fn.value[i] \in 0..65535
           /\ fn.value[4] = 0
           /\ (\A i \in 1..6 : fn.before.data[i] = fn.data[i]) => fn.before.value = fn.value

C16_Witness ==
    /\ fn.f = "hashAsMetricValue"
    /\ fn.data # fn.before.data
    /\ fn.data[7] = 255 /\ fn.before.data[7] = 0
    /\ fn.data[1] = 255 /\ fn.data[6] = 255
    /\ fn.value = fn.before.value
    /\ fn.value = <<255, 0, 65280, 0>>

\* C11: when PutAlerts is given a batch of N alerts of which M < N are invalid, the
\* N-M valid alerts are accepted by the pipeline, in the order of the batch, and
\* PutAlerts returns an AlertValidationError whose Alerts are exactly the M
\* invalid ones (nil when M = 0).
C11_PartialAcceptance ==
    put.called
        => LET N == Len(put.batch)
               invalid == SelectSeq(put.batch, InvalidAlert)
               M == Len(invalid)
           IN M < N
                => /\ Len(put.accepted) = N - M
                   /\ put.accepted = SelectSeq(put.batch, ValidAlert)
                   /\ Range(put.accepted) \subseteq alerts
                   /\ put.err.isnil <=> M = 0
                   /\ put.err.Alerts = invalid

C11_Witness ==
    /\ put.called
    /\ put.batch = <<AlertNoLabels, AlertUp, AlertEndsFirst>>
    /\ put.accepted = <<AlertUp>>
    /\ ~put.err.isnil /\ put.err.Alerts = <<AlertNoLabels, AlertEndsFirst>>
    /\ alerts = {AlertUp, AlertOpen}

\* C17: the maintenance functions of silences and of the notification log persist
\* with a context that is never cancelled: no maintenanceFunc call returns a
\* cancellation error, whenever the constructor context is cancelled or the stop is
\* signalled; a call that has started returns, with nil or an I/O error; and once
\* the stop is signalled each goroutine runs a last flush that returns so before
\* it exits.
C17_FlushNotAborted ==
    /\ [](\A k \in SnapshotNames : mres[k] \in {NotCalled, NoErr, ErrIO})
    /\ [][\A k \in SnapshotNames :
            (mpc[k] # "exited" /\ mpc'[k] = "exited")
                => mpc[k] = "final" /\ mres'[k] \in {NoErr, ErrIO}]_vars
    /\ \A k \in SnapshotNames :
        /\ (mpc[k] = "persist") ~> (mpc[k] = "wait")
        /\ stopc ~> (mpc[k] = "exited" /\ mres[k] \in {NoErr, ErrIO})

C17_Witness ==
    /\ ctxDone /\ stopc
    /\ mpc[SilencesFilename] = "exited" /\ mres[SilencesFilename] = NoErr
    /\ SilencesFilename \in wd.snaps
    /\ mpc[NotificationLogFilename] = "final" /\ mres[NotificationLogFilename] = ErrIO

\* C18: while CleanUp runs, and ever after a CleanUp call, both maintenance
\* goroutines have exited, so no maintenanceFunc is in progress together with
\* CleanUp; and after a CleanUp call no step creates the working directory or a
\* snapshot file in it.
C18_CleanUpAfterMaintenance ==
    /\ []((cpc = "removing" \/ cleaned # <<>>)
            => \A k \in SnapshotNames : mpc[k] = "exited")
    /\ [][cleaned # <<>>
            => /\ wd'.snaps \subseteq wd.snaps
               /\ wd'.exists => wd.exists]_vars

C18_Witness ==
    /\ cpc = "removing"
    /\ wd.snaps = SnapshotNames
    /\ \A k \in SnapshotNames : mpc[k] = "exited" /\ mres[k] = NoErr
    /\ stopped

\* C19: a CleanUp call leaves no working directory, no snapshot file and no
\* template file, whatever was there; on a directory that is already removed it
\* changes nothing; it has no error to return and no state in which it fails.
C19_CleanUpIdempotent ==
    [][(cpc = "removing" /\ cpc' = "idle")
        => /\ wd' = RemovedDir /\ disk' = {}
           /\ (wd = RemovedDir /\ disk = {}) => UNCHANGED <<wd, disk>>]_vars

C19_Witness ==
    /\ cpc = "idle" /\ Len(cleaned) = 2
    /\ cleaned[1] = [exists |-> TRUE, snaps |-> SnapshotNames]
    /\ cleaned[2] = RemovedDir
    /\ wd = RemovedDir

\* b is one whole configuration: its hash is the hash of a document whose route
\* and receivers are the ones b routes with
OneConfiguration(b) ==
    /\ b.configHash # ZeroHash
    /\ b.configHash[1].am.route = b.am.route
    /\ b.configHash[1].am.receivers = b.am.receivers
    /\ b.am.route \in b.am.receivers

\* C20: in every state, also between the steps of an apply that holds the lock,
\* what a PutAlerts or a read of the hash finds in Base is one whole
\* configuration: the one from before the apply, or the one the apply has built,
\* hash, route and receivers together; never the hash of one with the routes of
\* the other.
C20_ConsistentSnapshot ==
    /\ base.ready => OneConfiguration(base)
    /\ \A p \in Procs :
        lock = p
            => \/ base = pre.base
               \/ /\ baseErr[p] = NoErr
                  /\ base = [ready |-> TRUE, configHash |-> Md5(raw[p]), am |-> cfg[p].am]

C20_Witness ==
    \E p, q \in Procs :
        /\ lock = p /\ pc[p] = "commit" /\ baseErr[p] = NoErr
        /\ pre.base.ready /\ base # pre.base
        /\ base.am.route # pre.base.am.route
        /\ OneConfiguration(pre.base)
        /\ pc[q] = "lock"

\* p's ApplyConfig call is given the record of the bytes the last save stored and
\* applied, and the template files it carries are the ones in the working
\* directory
ReappliesSaved(p) ==
    /\ op[p] = "Apply"
    /\ pre.set
    /\ pre.base.configHash # ZeroHash
    /\ pre.base.configHash = Md5(pre.db.latest)
    /\ dbhash[p] = pre.base.configHash
    /\ cfg[p].tf.files = pre.disk

\* C25: an ApplyConfig of the record that holds the bytes a successful
\* SaveAndApplyConfig stored, with the template files unchanged, is a no-op: Base is
\* not rebuilt and the configuration is not marked as applied.
C25_ReapplySavedIsNoOp ==
    \A p \in Procs :
        (pc[p] = "unlock" /\ ReappliesSaved(p))
            => (baseErr[p] = NotCalled /\ markErr[p] = NotCalled /\ base = pre.base)

\* C26: when applyConfig returns an error, the template files in the working
\* directory and the active hash are the ones from before the call.
C26_FailedApplyLeavesFilesAndHash ==
    \A p \in Procs :
        (ApplyReturned(p) /\ ares[p].err # NoErr)
            => (disk = pre.disk /\ base.configHash = pre.base.configHash)

\* C27: whenever ApplyConfig returns an error, the active configuration is the one
\* that was active before the call, also when it is MarkConfigurationAsApplied
\* that failed after the rebuild.
C27_ApplyErrorKeepsActive ==
    \A p \in Procs :
        (pc[p] = "unlock" /\ op[p] = "Apply" /\ outerErr[p] # NoErr) => base = pre.base

GaugesSet == gauges' # gauges

\* C30 as stated: the gauges are set after the new configuration has been swapped
\* in and after the lock has been released.
C30_MetricsAfterUnlock ==
    [][GaugesSet => (lock = NoProc /\ base.ready)]_vars

\* C30, amended: the gauges are set only by the call that holds the lock, after
\* its Base.ApplyConfig has swapped the new configuration in and before the lock
\* is released; the hash gauge is set from the hash of that configuration.
C30_MetricsAfterSwapInsideLock ==
    [][\A p \in Procs :
        ((pc[p] = "applyC" /\ pc'[p] # "applyC") \/ (GaugesSet /\ lock = p))
            => /\ lock = p /\ lock' = p
               /\ pc[p] = "applyC"
               /\ baseErr[p] = NoErr
               /\ base.ready /\ base.configHash = Md5(raw[p])
               /\ base' = base
               /\ gauges'.ConfigHash = hashAsMetricValue(Sum16(Md5(raw[p])))]_vars

\* the gauges hold the values of a second configuration, set while its call
\* still holds the lock
C30_Witness ==
    \E p \in Procs :
        /\ lock = p /\ pc[p] \in {"commit", "mark"}
        /\ baseErr[p] = NoErr
        /\ pre.base.ready
        /\ pre.base.configHash # base.configHash
        /\ gauges.ConfigHash = hashAsMetricValue(Sum16(base.configHash))
        /\ gauges.ConfigHash # hashAsMetricValue(Sum16(pre.base.configHash))

\* C24: the AlertValidationError a PutAlerts call returns has as many Errors as
\* Alerts, and Errors[i] is the validation error of Alerts[i]; a nil error has
\* neither.
C24_ParallelAlertsAndErrors ==
    put.called
        => /\ Len(put.err.Alerts) = Len(put.err.Errors)
           /\ \A i \in 1..Len(put.err.Alerts) :
                /\ InvalidAlert(put.err.Alerts[i])
                /\ put.err.Errors[i] = ValidationErrorOf(put.err.Alerts[i])
           /\ put.err.isnil <=> put.err.Alerts = <<>>

\* a batch with two invalid alerts that fail for different reasons
C24_Witness ==
    /\ put.called
    /\ put.err.Alerts = <<AlertEndsFirst, AlertNoLabels>>
    /\ put.err.Errors = <<"ends before it starts", "no labels">>
    /\ Len(put.batch) = 3

\* C22: when an instance is constructed on an empty working directory, the
\* snapshot file NewAlertmanager resolves for a state holds, byte for byte, what
\* the maintenanceFunc of that state last persisted, for as long as the new
\* instance has not persisted that state again.
C22_SnapshotRoundTrip ==
    \A k \in SnapshotNames :
        (up /\ loaded[k] /\ persisted[k].has)
            => /\ FilepathName(k) \in wd.snaps
               /\ content[FilepathName(k)] = persisted[k]

\* the silences were persisted with two entries and the notification log with
\* none, the working directory was lost, and the new instance has both files back
C22_Witness ==
    /\ up /\ loaded[SilencesFilename] /\ loaded[NotificationLogFilename]
    /\ persisted[SilencesFilename] = Value(<<0, 1>>)
    /\ persisted[NotificationLogFilename] = Value(<<>>)
    /\ content[SilencesFilename] = Value(<<0, 1>>)
    /\ content[NotificationLogFilename] = Value(<<>>)
    /\ wd.snaps = SnapshotNames

\* the entries of state k that are older than the retention, and the others
OlderThanRetention(k) == {e \in mem[k] : now - e > retentionNotificationsAndSilences}
WithinRetention(k) == mem[k] \ OlderThanRetention(k)

\* C23: a maintenance tick of a state leaves in it exactly the entries that are
\* not older than the retention; the snapshot written after it is the state as
\* it then is; and an entry leaves a state of an instance only in such a tick,
\* or with the process, after which the state the new instance loads is every
\* entry of the snapshot file, whatever its age.
C23_RetentionEnforced ==
    [][\A k \in SnapshotNames :
        /\ (mpc[k] = "wait" /\ mpc'[k] \in {"persist", "final"})
                => mem'[k] = WithinRetention(k)
        /\ (mpc[k] \in {"persist", "final"} /\ mpc'[k] # mpc[k] /\ mres'[k] = NoErr)
                => content'[PersistName(k)] = Value(MarshalBinary(mem[k]))
        /\ (up' /\ ~(mem[k] \subseteq mem'[k]))
                => \/ /\ mpc[k] = "wait" /\ mpc'[k] \in {"persist", "final"}
                      /\ mem[k] \ mem'[k] = OlderThanRetention(k)
                   \/ /\ mpc'[k] = "wait" /\ mres'[k] = NotCalled
                      /\ mem'[k] = UnmarshalBinary(content'[FilepathName(k)].bytes)]_vars

\* on day 6 a tick of the silences has dropped the entry of day 0 and kept the
\* entry of day 1, which is five days old
C23_Witness ==
    /\ now = 6
    /\ mpc[SilencesFilename] = "persist"
    /\ content[SilencesFilename] = Value(<<0, 1>>)
    /\ mem[SilencesFilename] = {1}

\* C21: the working directory a tenant's instance has made and the lock it holds
\* are not the directory and the lock of the other tenant's instance; a caller
\* waiting for the lock of its instance finds it free whatever the other
\* tenant holds; every snapshot file in a tenant's directory holds that tenant's
\* state; and a step of one tenant's instance leaves the lock, the active
\* configuration and the working directory of the other as they were.
C21_TenantIndependence ==
    /\ [](\A o, q \in Orgs :
            /\ (o # q /\ tfs[WorkingPath(o)].exists) => WorkingPath(o) # WorkingPath(q)
            /\ (o # q /\ tlock[BaseOf(o)] = o) => BaseOf(o) # BaseOf(q)
            /\ tpc[o] = "lock" => tlock[BaseOf(o)] = NoOrg
            /\ \A f \in tfs[WorkingPath(o)].snaps : f[2] = o)
    /\ [][\A o \in Orgs :
            o # actor'
                => /\ tlock'[BaseOf(o)] = tlock[BaseOf(o)]
                   /\ tactive'[BaseOf(o)] = tactive[BaseOf(o)]
                   /\ tfs'[WorkingPath(o)] = tfs[WorkingPath(o)]]_vars

\* both callers are inside the lock of their own instance, each instance has its
\* own configuration active and its own snapshots and templates on disk
C21_Witness ==
    /\ tpc[orgID] = "out" /\ tpc[otherOrgID] = "out"
    /\ tlock[BaseOf(orgID)] = orgID /\ tlock[BaseOf(otherOrgID)] = otherOrgID
    /\ tactive[BaseOf(orgID)].ready /\ tactive[BaseOf(otherOrgID)].ready
    /\ tactive[BaseOf(orgID)].configHash # tactive[BaseOf(otherOrgID)].configHash
    /\ tfs[WorkingPath(orgID)].snaps = {<<SilencesFilename, orgID>>}
    /\ tfs[WorkingPath(otherOrgID)].snaps =
            {<<SilencesFilename, otherOrgID>>, <<NotificationLogFilename, otherOrgID>>}
    /\ tfs[WorkingPath(orgID)].disk # tfs[WorkingPath(otherOrgID)].disk

SavePositions == {"save", "applyA", "applyB", "applyC", "commit", "unlock"}

\* C32: in SaveAndApplyConfig and SaveAndApplyDefaultConfig the caller holds the
\* lock from before the store's save starts until after the save, callback
\* included, has returned: the lock is taken before the save command is built,
\* it is released only from the position after the save returned, the row is
\* committed and the configuration activated by the holder, and while a save is
\* between its start and its return no step of another caller changes the
\* database, the active configuration, the template files or the gauges.
C32_LockSpansSave ==
    /\ [](\A p \in Procs :
            (op[p] \in SaveOps /\ pc[p] \in SavePositions) => lock = p)
    /\ [][\A p \in Procs :
            op[p] \in SaveOps =>
                /\ (pc[p] # "save" /\ pc'[p] = "save") => (lock' = p /\ cmd[p] = NoCmd /\ db' = db)
                /\ (lock = p /\ lock' # p) => pc[p] = "unlock"
                /\ (pc[p] \in SavePositions /\ (db' # db \/ base' # base))
                        => (lock = p /\ lock' = p /\ pc'[p] # pc[p])
                /\ (pc[p] \in SavePositions)
                        => \A q \in Procs \ {p} :
                            pc'[q] # pc[q] => UNCHANGED <<base, db, disk, marks, gauges, lock>>]_vars

\* a save has activated its configuration and not yet committed the row, while
\* the other caller's save waits for the lock
C32_Witness ==
    \E p, q \in Procs :
        /\ p # q
        /\ op[p] \in SaveOps /\ pc[p] = "commit" /\ lock = p
        /\ base # pre.base /\ db = pre.db
        /\ op[q] \in SaveOps /\ pc[q] = "lock"

\* p's SaveAndApplyConfig was given a configuration whose marshalled bytes are
\* the active ones and whose template files, default template included, are the
\* ones in the working directory
SavesActive(p) ==
    /\ op[p] = "Save"
    /\ pre.set
    /\ pre.base.ready
    /\ pre.base.configHash = Md5(cmd[p].AlertmanagerConfiguration)
    /\ cfg[p].tf.files = pre.disk

\* C33 as stated: a SaveAndApplyConfig of the active bytes with unchanged templates
\* changes nothing: Base is not rebuilt and no new row is committed.
C33_ResaveChangesNothing ==
    \A p \in Procs :
        (pc[p] = "unlock" /\ SavesActive(p))
            => (baseErr[p] = NotCalled /\ base = pre.base /\ db = pre.db)

\* C33, amended: a SaveAndApplyConfig of the active bytes with unchanged templates
\* does not rebuild: Base.ApplyConfig is not called and Base, the template files
\* and the gauges are the ones from before the call; the store still commits a
\* row with the same bytes, unless the store or the template persistence failed,
\* and then the database is as before.
C33_ResaveSkipsRebuildButCommits ==
    \A p \in Procs :
        (pc[p] = "unlock" /\ SavesActive(p))
            => /\ baseErr[p] = NotCalled
               /\ base = pre.base /\ disk = pre.disk /\ gauges = pre.gauges
               /\ IF saveErr[p] = NoErr
                  THEN /\ db.latest = raw[p]
                       /\ Md5(db.latest) = base.configHash
                       /\ db.rows = pre.db.rows + 1
                       /\ outerErr[p] = NoErr
                  ELSE db = pre.db /\ outerErr[p] = saveErr[p]

\* the second save of the same configuration has committed its row without a
\* rebuild
C33_Witness ==
    \E p \in Procs :
        /\ pc[p] = "unlock" /\ SavesActive(p)
        /\ ares[p] = [changed |-> FALSE, err |-> NoErr]
        /\ saveErr[p] = NoErr
        /\ pre.db.latest = raw[p]
        /\ db.rows = 2

\* C36 as claimed: whenever SaveAndApplyDefaultConfig or SaveAndApplyConfig
\* returns no error, the configuration has been committed to the database and is
\* the active one: the instance is ready and its active hash is the hash of the
\* saved bytes.
C36_NilMeansSavedAndApplied ==
    \A p \in Procs :
        (pc[p] = "unlock" /\ op[p] \in SaveOps /\ outerErr[p] = NoErr)
            => /\ db.latest = cmd[p].AlertmanagerConfiguration
               /\ db.rows = pre.db.rows + 1
               /\ base.ready
               /\ base.configHash = Md5(cmd[p].AlertmanagerConfiguration)

\* C37: whenever no caller holds the lock and some Base.ApplyConfig has succeeded,
\* the config-hash gauge of the tenant is hashAsMetricValue of the active hash of
\* the instance, and the matcher gauges are those of the active configuration.
C37_HashGaugeTracksActive ==
    (lock = NoProc /\ everBuilt)
        => /\ base.ready
           /\ gauges.ConfigHash = hashAsMetricValue(Sum16(base.configHash))
           /\ gauges.ConfigHash # NoGauges.ConfigHash
           /\ gauges.Matchers = updateConfigMetrics(UsageConfig(base.am), Sum16(ZeroHash)).Matchers

\* no call is in progress, two rows have been committed, and the gauge holds the
\* value of the hash of the latest one, which is active
C37_Witness ==
    /\ lock = NoProc /\ everBuilt
    /\ db.rows = 2
    /\ base.configHash = Md5(db.latest)
    /\ hist.ok /\ hist.raw = db.latest
    /\ gauges.ConfigHash = hashAsMetricValue(Sum16(Md5(db.latest)))
    /\ \A p \in Procs : pc[p] = "idle"

\* C38: for a batch of N postable alerts PutAlerts hands Base.PutAlerts exactly N
\* alerts, the i-th with the annotations, start time, end time and alert of the
\* i-th of the batch, so none is dropped, duplicated or moved; and what PutAlerts
\* returns is what Base.PutAlerts returned for them.
C38_ForwardsWholeBatch ==
    put.called
        => /\ Len(put.sent) = Len(put.batch)
           /\ \A i \in 1..Len(put.batch) :
                /\ put.sent[i].Annotations = put.batch[i].Annotations
                /\ put.sent[i].StartsAt = put.batch[i].StartsAt
                /\ put.sent[i].EndsAt = put.batch[i].EndsAt
                /\ put.sent[i].Alert = put.batch[i].Alert
           /\ put.err = BasePutAlerts(put.sent).err
           /\ put.accepted = BasePutAlerts(put.sent).accepted

\* a batch of three that holds the same alert twice, around another one
C38_Witness ==
    /\ put.called
    /\ put.batch = <<AlertEndsFirst, AlertUp, AlertEndsFirst>>
    /\ Len(put.sent) = 3
    /\ put.sent[1] = put.sent[3] /\ put.sent[2] # put.sent[1]
    /\ put.sent[1].StartsAt = 2 /\ put.sent[1].EndsAt = 1
    /\ put.err.Alerts = <<AlertEndsFirst, AlertEndsFirst>>

\* the four matcher counts of the gauges
UsageOf(g) ==
    [Matchers |-> g.Matchers, MatchRE |-> g.MatchRE, Match |-> g.Match,
     ObjectMatchers |-> g.ObjectMatchers]

\* C35: updateConfigMetrics leaves the configuration as it found it: the route
\* tree and the inhibit rules of the call, and the active configuration, are the
\* same after the step as before; and it counts from zero: after each call the
\* matcher gauges are the counts of the configuration of that call alone,
\* whatever the gauges held from an earlier configuration.
C35_AggregationReadsOnly ==
    [][\A p \in Procs :
        (pc[p] = "applyC" /\ pc'[p] # "applyC")
            => /\ cfg'[p] = cfg[p] /\ base' = base
               /\ UsageConfig(cfg'[p].am) = UsageConfig(base.am)
               /\ UsageOf(gauges') =
                    IF cfg[p].am.route = "r1"
                    THEN [Matchers |-> 0, MatchRE |-> 1, Match |-> 1, ObjectMatchers |-> 2]
                    ELSE [Matchers |-> 4, MatchRE |-> 2, Match |-> 0, ObjectMatchers |-> 1]]_vars

\* the gauges held the counts of an earlier configuration with four matchers and
\* now hold those of a configuration with none
C35_Witness ==
    \E p \in Procs :
        /\ ApplyReturned(p) /\ baseErr[p] = NoErr
        /\ pre.set /\ pre.base.ready
        /\ UsageOf(pre.gauges) = [Matchers |-> 4, MatchRE |-> 2, Match |-> 0, ObjectMatchers |-> 1]
        /\ UsageOf(gauges) = [Matchers |-> 0, MatchRE |-> 1, Match |-> 1, ObjectMatchers |-> 2]
        /\ UsageConfig(base.am).Route = ExampleRoute

\* ------------------------------------ maintenance while a save holds the lock
\* The maintenance ticks of the two states next to the SaveAndApplyConfig calls
\* of one caller.
NextMaintDuringSave ==
    \/ \E k \in SnapshotNames :
        \/ Tick(k)
        \/ MaintenanceFunc(k)
    \/ SaveAndApplyConfig("c1")
    \/ Lock("c1")
    \/ SaveBegin("c1")
    \/ ApplyA("c1")
    \/ ApplyB("c1")
    \/ ApplyC("c1")
    \/ Commit("c1")
    \/ Unlock("c1")

SpecMaintDuringSave == Init /\ [][NextMaintDuringSave]_vars

\* C34: a maintenance step of one state writes only the snapshot of its own
\* name, in the working directory and in the fallback store, and leaves the
\* other state's goroutine, the lock and the configuration alone; a tick can
\* start and its maintenanceFunc can return in every state, whoever holds the
\* lock and wherever the other state's goroutine is.
C34_MaintenanceIndependent ==
    /\ [](\A k \in SnapshotNames :
            /\ mpc[k] = "wait" => ENABLED Tick(k)
            /\ mpc[k] = "persist" => ENABLED MaintenanceFunc(k))
    /\ [][\A k \in SnapshotNames :
            mpc'[k] # mpc[k]
                => /\ \A j \in SnapshotNames \ {k} :
                        /\ mpc'[j] = mpc[j] /\ mres'[j] = mres[j]
                        /\ content'[j] = content[j] /\ kv'[j] = kv[j]
                        /\ (j \in wd'.snaps) = (j \in wd.snaps)
                   /\ (mres'[k] = NoErr /\ mpc[k] = "persist")
                        => (k \in wd'.snaps /\ content'[k] = Value(MarshalBinary(mem[k])))
                   /\ UNCHANGED <<shared, locals, pre, gauges>>]_vars

\* the silences snapshot has been written since the save took the lock, the save
\* is between the activation and the commit of its row, and the tick of the
\* notification log has started and not returned
C34_Witness ==
    /\ lock = "c1" /\ op["c1"] = "Save" /\ pc["c1"] = "commit"
    /\ base # pre.base /\ db = pre.db
    /\ SilencesFilename \in wd.snaps /\ SilencesFilename \notin pre.wd.snaps
    /\ mres[SilencesFilename] = NoErr /\ mpc[SilencesFilename] = "wait"
    /\ NotificationLogFilename \notin wd.snaps
    /\ mpc[NotificationLogFilename] = "persist"
====
